---- MODULE Spec2Model ----
(***************************************************************************)
(* Document Analysis Tool (src/document_analysis.py).                      *)
(*                                                                         *)
(* Text is modelled as a sequence of one-character strings, so that the    *)
(* regular expressions, str.strip, str.lower, str.startswith, the "in"     *)
(* test and json.loads are computed on characters as the code computes     *)
(* them.  Python and JSON values are tagged records [t, v].                *)
(***************************************************************************)
EXTENDS Integers, Sequences, FiniteSets, TLC

VARIABLES
    log_records,      \* st.session_state.log_records (the stage of each record)
    runs,             \* script runs of main() with a file so far
    debug_mode,       \* the sidebar toggle, read by the last run
    mime_type,        \* uploaded_file.type of the last run
    upload_resp,      \* what requests.post did in the last run
    completion,       \* what client.chat.completions.create did in the last run
    calls,            \* external calls made by the last analyze_document, in order
    analysis_result,  \* value returned by analyze_document / given to render_analysis_ui
    outcome,          \* the return statement of analyze_document that gave it
    banner,           \* st.error / st.success shown by main
    ui,               \* what render_analysis_ui put on the page
    debug_view,       \* records shown by render_debug
    sent,             \* the JSON object the provider put in its reply
    raw_type,         \* argument of _normalize_type
    doc_type          \* outcome of _normalize_type

vars == << log_records, runs, debug_mode, mime_type, upload_resp, completion,
           calls, analysis_result, outcome, banner, ui, debug_view, sent, raw_type, doc_type >>

----------------------------------------------------------------------------
(* Bounds of the model *)

\* script runs with an uploaded file in one session
MaxRuns == 1
\* fragments concatenated into an argument of _normalize_type
MaxFrags == 2
\* fields of a JSON object in a provider reply
MaxFields == 2
\* prose fragments before and after the JSON object in a provider reply
MaxProse == 1

----------------------------------------------------------------------------
(* Python and JSON values *)

PStr(cs)  == [t |-> "str",  v |-> cs]
PNum(n)   == [t |-> "num",  v |-> n]
PBool(b)  == [t |-> "bool", v |-> b]
PNone     == [t |-> "null", v |-> 0]
PList(xs) == [t |-> "list", v |-> xs]
\* a dict: its items in insertion order, keys unique
PDict(kv) == [t |-> "obj",  v |-> kv]
\* an object json.dumps cannot serialise (a pydantic model instance)
PObject   == [t |-> "pyobj", v |-> 0]

\* bool(x)
Truthy(x) ==
    CASE x.t = "str"   -> x.v # <<>>
      [] x.t = "num"   -> x.v # 0
      [] x.t = "bool"  -> x.v
      [] x.t = "null"  -> FALSE
      [] x.t = "list"  -> x.v # <<>>
      [] x.t = "obj"   -> x.v # <<>>
      [] OTHER         -> TRUE

HasKey(d, k) == \E i \in 1..Len(d.v) : d.v[i][1] = k

\* dict.get(k): None when the key is absent
DictGet(d, k) ==
    IF HasKey(d, k)
    THEN d.v[CHOOSE i \in 1..Len(d.v) : d.v[i][1] = k][2]
    ELSE PNone

\* d[k] = x
DictPut(d, k, x) ==
    IF \E i \in 1..Len(d) : d[i][1] = k
    THEN [i \in 1..Len(d) |-> IF d[i][1] = k THEN <<k, x>> ELSE d[i]]
    ELSE Append(d, <<k, x>>)

\* a or b
PyOr(a, b) == IF Truthy(a) THEN a ELSE b

----------------------------------------------------------------------------
(* Text *)

UpperCase == <<"A","B","C","D","E","F","G","H","I","J","K","L","M",
               "N","O","P","Q","R","S","T","U","V","W","X","Y","Z">>
LowerCase == <<"a","b","c","d","e","f","g","h","i","j","k","l","m",
               "n","o","p","q","r","s","t","u","v","w","x","y","z">>
Digits    == <<"0","1","2","3","4","5","6","7","8","9">>

IsUpper(c) == \E i \in 1..26 : UpperCase[i] = c
IsLower(c) == \E i \in 1..26 : LowerCase[i] = c
IsDigit(c) == \E i \in 1..10 : Digits[i] = c
DigitValue(c) == (CHOOSE i \in 1..10 : Digits[i] = c) - 1

LowerChar(c) == IF IsUpper(c) THEN LowerCase[CHOOSE i \in 1..26 : UpperCase[i] = c] ELSE c
UpperChar(c) == IF IsLower(c) THEN UpperCase[CHOOSE i \in 1..26 : LowerCase[i] = c] ELSE c

\* str.lower()
ToLower(s) == [i \in 1..Len(s) |-> LowerChar(s[i])]

\* str.title(): a letter after a non-letter is upper-cased, the others lower-cased
Title(s) ==
    [i \in 1..Len(s) |->
        IF i = 1 \/ ~(IsUpper(s[i-1]) \/ IsLower(s[i-1]))
        THEN UpperChar(s[i]) ELSE LowerChar(s[i])]

Whitespace == {" ", "\n", "\r", "\t"}

\* the grave accent, which cannot be written inside a string of this language
Backtick == "GRAVE"

\* str.strip(chars)
StripChars(s, cs) ==
    LET keep == {i \in 1..Len(s) : s[i] \notin cs}
    IN  IF keep = {} THEN <<>>
        ELSE LET lo == CHOOSE i \in keep : \A j \in keep : i <= j
                 hi == CHOOSE i \in keep : \A j \in keep : i >= j
             IN  SubSeq(s, lo, hi)

\* str.strip()
Strip(s) == StripChars(s, Whitespace)

\* s[i:i+len(p)] == p
MatchAt(s, i, p) ==
    /\ i >= 1
    /\ i + Len(p) - 1 <= Len(s)
    /\ \A k \in 1..Len(p) : s[i + k - 1] = p[k]

\* s.startswith(p)
StartsWith(s, p) == MatchAt(s, 1, p)

\* p in s
Contains(s, p) == \E i \in 1..(Len(s) + 1) : MatchAt(s, i, p)

RECURSIVE Decimal(_)
\* str(n) of an integer
Decimal(n) ==
    IF n < 0 THEN <<"-">> \o Decimal(0 - n)
    ELSE IF n < 10 THEN <<Digits[n + 1]>>
    ELSE Decimal(n \div 10) \o <<Digits[(n % 10) + 1]>>

----------------------------------------------------------------------------
(* _normalize_type *)

Administrative == <<"a", "d", "m", "i", "n", "i", "s", "t", "r", "a", "t", "i", "v", "e">>
Criminal       == <<"c", "r", "i", "m", "i", "n", "a", "l">>
Unknown        == <<"u", "n", "k", "n", "o", "w", "n">>
Labels         == {Administrative, Criminal, Unknown}

Returned(x) == [raised |-> FALSE, val |-> x]
\* AttributeError: only str has .strip()
Raised      == [raised |-> TRUE,  val |-> PNone]

\* mutant: the criminal rule tested before the admin rule
normalize_type_criminal_first(raw) ==
    IF ~Truthy(raw) THEN Returned(PStr(Unknown))
    ELSE IF raw.t # "str" THEN Raised
    ELSE LET t == ToLower(Strip(raw.v))
         IN  IF Contains(t, <<"c", "r", "i", "m", "i", "n", "a", "l">>) THEN Returned(PStr(Criminal))
             ELSE IF Contains(t, <<"a", "d", "m", "i", "n">>) THEN Returned(PStr(Administrative))
             ELSE Returned(PStr(Unknown))

\* mutant: the unmatched value is passed through instead of "unknown"
normalize_type_pass_through(raw) ==
    IF ~Truthy(raw) THEN Returned(PStr(Unknown))
    ELSE IF raw.t # "str" THEN Raised
    ELSE LET t == ToLower(Strip(raw.v))
         IN  IF Contains(t, <<"a", "d", "m", "i", "n">>) THEN Returned(PStr(Administrative))
             ELSE IF Contains(t, <<"c", "r", "i", "m", "i", "n", "a", "l">>) THEN Returned(PStr(Criminal))
             ELSE Returned(PStr(t))

_normalize_type(raw) ==
    IF ~Truthy(raw) THEN Returned(PStr(Unknown))
    ELSE IF raw.t # "str" THEN Raised
    ELSE LET t == ToLower(Strip(raw.v))
         IN  IF Contains(t, <<"a", "d", "m", "i", "n">>) THEN Returned(PStr(Administrative))
             ELSE IF Contains(t, <<"c", "r", "i", "m", "i", "n", "a", "l">>) THEN Returned(PStr(Criminal))
             ELSE Returned(PStr(Unknown))

----------------------------------------------------------------------------
(* _clean_possible_json *)

\* re.IGNORECASE match of the lower-case pattern p at s[i:]
MatchAtIgnoreCase(s, i, p) ==
    /\ i >= 1
    /\ i + Len(p) - 1 <= Len(s)
    /\ \A k \in 1..Len(p) : LowerChar(s[i + k - 1]) = p[k]

\* the first position from i on where p matches, Len(s) + 1 when there is none
Find(s, i, p) ==
    CHOOSE j \in i..(Len(s) + 1) :
        /\ j = Len(s) + 1 \/ MatchAt(s, j, p)
        /\ \A k \in i..(j - 1) : ~MatchAt(s, k, p)

RECURSIVE SubFence(_, _)
RECURSIVE SubFenceAt(_, _, _)
\* re.sub of three grave accents and an optional "json" (re.IGNORECASE) by "",
\* from position i on: the text up to the next match, then the rest after it
SubFence(s, i) == SubFenceAt(s, i, Find(s, i, <<Backtick, Backtick, Backtick>>))

\* the next match is at j
SubFenceAt(s, i, j) ==
    IF j > Len(s) THEN SubSeq(s, i, Len(s))
    ELSE SubSeq(s, i, j - 1)
         \o SubFence(s, IF MatchAtIgnoreCase(s, j + 3, <<"j", "s", "o", "n">>) THEN j + 7 ELSE j + 3)

\* re.search(r"\{.*\}", cleaned, flags=re.DOTALL): first "{" to the last "}" after it
SearchBraces(s) ==
    LET opens  == {i \in 1..Len(s) : s[i] = "{"}
        first  == CHOOSE i \in opens : \A j \in opens : i <= j
        closes == {i \in 1..Len(s) : s[i] = "}" /\ i > first}
        last   == CHOOSE i \in closes : \A j \in closes : i >= j
    IN  IF opens = {} \/ closes = {}
        THEN [found |-> FALSE, group |-> <<>>]
        ELSE [found |-> TRUE,  group |-> SubSeq(s, first, last)]

\* match.group(0) if match else cleaned
GroupOrCleaned(match, cleaned) == IF match.found THEN match.group ELSE cleaned

\* lines 85-86 on the cleaned text
IsolateObject(cleaned) == GroupOrCleaned(SearchBraces(cleaned), cleaned)

_clean_possible_json(text) ==
    IF ~Truthy(text) THEN <<>>
    ELSE IsolateObject(StripChars(SubFence(text.v, 1), {Backtick, " ", "\n", "\r", "\t"}))

----------------------------------------------------------------------------
(* json.loads, for the JSON the model's replies are written in: objects,   *)
(* arrays, strings with the escapes \" \\ \/ \n \r \t, integers, true,    *)
(* false, null, and whitespace between tokens.  Each operator takes what   *)
(* was scanned so far and goes on from there.                              *)

JsonFail == [ok |-> FALSE, val |-> PNone, pos |-> 0]
JsonOk(x, p) == [ok |-> TRUE, val |-> x, pos |-> p]

\* the first position from i on that holds no whitespace
SkipWs(s, i) ==
    CHOOSE j \in i..(Len(s) + 1) :
        /\ j = Len(s) + 1 \/ s[j] \notin Whitespace
        /\ \A k \in i..(j - 1) : s[k] \in Whitespace

\* the first position from i on that holds a quote, a backslash or a control
\* character
NextSpecial(s, i) ==
    CHOOSE j \in i..(Len(s) + 1) :
        /\ j = Len(s) + 1 \/ s[j] \in {"\"", "\\", "\n", "\r", "\t"}
        /\ \A k \in i..(j - 1) : s[k] \notin {"\"", "\\", "\n", "\r", "\t"}

RECURSIVE ScanString(_, _, _)
RECURSIVE ScanStringAt(_, _, _)
\* the characters of a string literal from i on (its opening quote is before i),
\* one run of plain characters at a time
ScanString(s, i, acc) ==
    ScanStringAt(s, NextSpecial(s, i), acc \o SubSeq(s, i, NextSpecial(s, i) - 1))

\* the run ended at j with the characters plain
ScanStringAt(s, j, plain) ==
    IF j > Len(s) THEN JsonFail
    ELSE IF s[j] = "\"" THEN JsonOk(plain, j + 1)
    ELSE IF s[j] = "\\"
         THEN IF j + 1 > Len(s) THEN JsonFail
              ELSE CASE s[j+1] = "\"" -> ScanString(s, j + 2, Append(plain, "\""))
                     [] s[j+1] = "\\" -> ScanString(s, j + 2, Append(plain, "\\"))
                     [] s[j+1] = "/"  -> ScanString(s, j + 2, Append(plain, "/"))
                     [] s[j+1] = "n"  -> ScanString(s, j + 2, Append(plain, "\n"))
                     [] s[j+1] = "r"  -> ScanString(s, j + 2, Append(plain, "\r"))
                     [] s[j+1] = "t"  -> ScanString(s, j + 2, Append(plain, "\t"))
                     [] OTHER         -> JsonFail
    \* a control character inside a string is an error (strict mode)
    ELSE JsonFail

RECURSIVE ScanDigits(_, _, _)
ScanDigits(s, i, acc) ==
    IF i <= Len(s) /\ IsDigit(s[i])
    THEN ScanDigits(s, i + 1, acc * 10 + DigitValue(s[i]))
    ELSE JsonOk(acc, i)

\* the digits r, negated or not
Signed(neg, r) == JsonOk(PNum(IF neg THEN 0 - r.val ELSE r.val), r.pos)

\* -?(0|[1-9]\d*) with the digits from j on
ScanNumberAt(s, neg, j) ==
    IF j > Len(s) \/ ~IsDigit(s[j]) THEN JsonFail
    ELSE IF s[j] = "0" THEN JsonOk(PNum(0), j + 1)
    ELSE Signed(neg, ScanDigits(s, j, 0))

ScanNumber(s, i) == ScanNumberAt(s, s[i] = "-", IF s[i] = "-" THEN i + 1 ELSE i)

\* a string literal r as a value
StringValue(r) == IF r.ok THEN JsonOk(PStr(r.val), r.pos) ELSE JsonFail

RECURSIVE ParseValue(_, _)
RECURSIVE ParseObject(_, _)
RECURSIVE ParseArray(_, _)
RECURSIVE ParseMembers(_, _, _)
RECURSIVE MemberKey(_, _, _)
RECURSIVE MemberColon(_, _, _, _)
RECURSIVE MemberValue(_, _, _, _)
RECURSIVE MemberEnd(_, _, _)
RECURSIVE ParseElements(_, _, _)
RECURSIVE ElementValue(_, _, _)
RECURSIVE ElementEnd(_, _, _)

\* the value that starts at s[i]
ParseValue(s, i) ==
    IF i > Len(s) THEN JsonFail
    ELSE CASE s[i] = "\"" -> StringValue(ScanString(s, i + 1, <<>>))
           [] s[i] = "{"  -> ParseObject(s, SkipWs(s, i + 1))
           [] s[i] = "["  -> ParseArray(s, SkipWs(s, i + 1))
           [] s[i] = "-" \/ IsDigit(s[i]) -> ScanNumber(s, i)
           [] MatchAt(s, i, <<"n", "u", "l", "l">>)  -> JsonOk(PNone, i + 4)
           [] MatchAt(s, i, <<"t", "r", "u", "e">>)  -> JsonOk(PBool(TRUE), i + 4)
           [] MatchAt(s, i, <<"f", "a", "l", "s", "e">>) -> JsonOk(PBool(FALSE), i + 5)
           [] OTHER -> JsonFail

\* after "{" and whitespace
ParseObject(s, j) ==
    IF j <= Len(s) /\ s[j] = "}" THEN JsonOk(PDict(<<>>), j + 1)
    ELSE ParseMembers(s, j, <<>>)

\* after "[" and whitespace
ParseArray(s, j) ==
    IF j <= Len(s) /\ s[j] = "]" THEN JsonOk(PList(<<>>), j + 1)
    ELSE ParseElements(s, j, <<>>)

\* "key": value pairs from s[i] to the closing brace; a repeated key keeps its
\* place and takes the last value
ParseMembers(s, i, acc) ==
    IF i > Len(s) \/ s[i] # "\"" THEN JsonFail
    ELSE MemberKey(s, ScanString(s, i + 1, <<>>), acc)

MemberKey(s, k, acc) ==
    IF ~k.ok THEN JsonFail ELSE MemberColon(s, k.val, SkipWs(s, k.pos), acc)

MemberColon(s, key, c, acc) ==
    IF c > Len(s) \/ s[c] # ":" THEN JsonFail
    ELSE MemberValue(s, key, ParseValue(s, SkipWs(s, c + 1)), acc)

MemberValue(s, key, x, acc) ==
    IF ~x.ok THEN JsonFail
    ELSE MemberEnd(s, SkipWs(s, x.pos), DictPut(acc, key, x.val))

MemberEnd(s, e, more) ==
    IF e > Len(s) THEN JsonFail
    ELSE IF s[e] = "}" THEN JsonOk(PDict(more), e + 1)
    ELSE IF s[e] = "," THEN ParseMembers(s, SkipWs(s, e + 1), more)
    ELSE JsonFail

ParseElements(s, i, acc) == ElementValue(s, ParseValue(s, i), acc)

ElementValue(s, x, acc) ==
    IF ~x.ok THEN JsonFail
    ELSE ElementEnd(s, SkipWs(s, x.pos), Append(acc, x.val))

ElementEnd(s, e, more) ==
    IF e > Len(s) THEN JsonFail
    ELSE IF s[e] = "]" THEN JsonOk(PList(more), e + 1)
    ELSE IF s[e] = "," THEN ParseElements(s, SkipWs(s, e + 1), more)
    ELSE JsonFail

\* the value r must be followed by whitespace only
WholeText(s, r) ==
    IF r.ok /\ SkipWs(s, r.pos) = Len(s) + 1
    THEN [ok |-> TRUE, val |-> r.val]
    ELSE [ok |-> FALSE, val |-> PNone]

\* json.loads(s): ok = FALSE when it raises JSONDecodeError
JsonLoads(s) == WholeText(s, ParseValue(s, SkipWs(s, 1)))

----------------------------------------------------------------------------
(* analyze_document *)

RECURSIVE Serializable(_)
\* whether json.dumps accepts x; it raises TypeError otherwise
Serializable(x) ==
    CASE x.t = "pyobj" -> FALSE
      [] x.t = "list"  -> \A i \in 1..Len(x.v) : Serializable(x.v[i])
      [] x.t = "obj"   -> \A i \in 1..Len(x.v) : Serializable(x.v[i][2])
      [] OTHER         -> TRUE

NotSerializable == <<"O", "b", "j", "e", "c", "t", " ", "o", "f", " ", "t", "y", "p", "e", " ", "C", "o", "m", "p", "l", "e", "t", "i", "o", "n", "T", "o", "k", "e", "n", "s", "D", "e", "t", "a", "i", "l", "s", " ", "i", "s", " ", "n", "o", "t", " ", "J", "S", "O", "N", " ", "s", "e", "r", "i", "a", "l", "i", "z", "a", "b", "l", "e">>

\* logger.debug(json.dumps(kwargs)): the record StreamlitHandler.emit appends,
\* or the TypeError of json.dumps
log_kv(stage, values) ==
    IF \A i \in 1..Len(values) : Serializable(values[i])
    THEN [raised |-> FALSE, msg |-> <<>>, records |-> <<stage>>]
    ELSE [raised |-> TRUE, msg |-> NotSerializable, records |-> <<>>]

TypeName(x) ==
    CASE x.t = "str"  -> <<"s", "t", "r">>
      [] x.t = "num"  -> <<"i", "n", "t">>
      [] x.t = "bool" -> <<"b", "o", "o", "l">>
      [] x.t = "null" -> <<"N", "o", "n", "e", "T", "y", "p", "e">>
      [] x.t = "list" -> <<"l", "i", "s", "t">>
      [] OTHER        -> <<"d", "i", "c", "t">>

RECURSIVE Repr(_)
RECURSIVE ReprItems(_, _, _)
\* repr(x) of a decoded JSON value (strings without quotes or escapes)
Repr(x) ==
    CASE x.t = "str"  -> <<"'">> \o x.v \o <<"'">>
      [] x.t = "num"  -> Decimal(x.v)
      [] x.t = "bool" -> IF x.v THEN <<"T", "r", "u", "e">> ELSE <<"F", "a", "l", "s", "e">>
      [] x.t = "null" -> <<"N", "o", "n", "e">>
      [] x.t = "list" -> <<"[">> \o ReprItems(x.v, 1, FALSE) \o <<"]">>
      [] OTHER        -> <<"{">> \o ReprItems(x.v, 1, TRUE) \o <<"}">>

ReprItems(items, i, keyed) ==
    IF i > Len(items) THEN <<>>
    ELSE (IF keyed
          THEN Repr(PStr(items[i][1])) \o <<":", " ">> \o Repr(items[i][2])
          ELSE Repr(items[i]))
         \o (IF i < Len(items) THEN <<",", " ">> ELSE <<>>)
         \o ReprItems(items, i + 1, keyed)

ErrUploading == <<"E", "r", "r", "o", "r", " ", "u", "p", "l", "o", "a", "d", "i", "n", "g", " ", "f", "i", "l", "e", ":", " ">>
ErrNoFileId  == <<"E", "r", "r", "o", "r", " ", "u", "p", "l", "o", "a", "d", "i", "n", "g", " ", "f", "i", "l", "e", ":", " ", "n", "o", " ", "f", "i", "l", "e", " ", "i", "d", " ", "r", "e", "t", "u", "r", "n", "e", "d", ":", " ">>
ErrAnalysis  == <<"E", "r", "r", "o", "r", " ", "d", "u", "r", "i", "n", "g", " ", "a", "n", "a", "l", "y", "s", "i", "s", ":", " ">>

\* "vision" if (mime_type and mime_type.startswith("image/")) else "user_data"
Purpose(mime) ==
    IF Truthy(mime) /\ StartsWith(mime.v, <<"i", "m", "a", "g", "e", "/">>) THEN "vision" ELSE "user_data"

FilesCall(mime) == [endpoint |-> "files", arg |-> PStr(<<>>), purpose |-> Purpose(mime)]
ChatCall(file_id) == [endpoint |-> "chat.completions", arg |-> file_id, purpose |-> "none"]

\* mutant: every 2xx status is taken for a success
UploadRejectedNon2xx(status_code) == status_code < 200 \/ status_code > 299

\* upload_resp.status_code not in (200, 201)
UploadRejected(status_code) == status_code \notin {200, 201}

\* the except clause, its log record l emitted
CaughtLogged(msg, made, logs, l) ==
    [result  |-> PStr(ErrAnalysis \o msg),
     calls   |-> made,
     logs    |-> logs \o l.records,
     raised  |-> l.raised,
     outcome |-> "exception"]

\* the except clause: log_kv(stage="exception", error=str(e)), then the error
\* string; raised: an exception of the except clause itself leaves analyze_document
Caught(msg, made, logs) ==
    CaughtLogged(msg, made, logs, log_kv("exception", <<PStr(msg)>>))

\* line 220, or the except clause when the log record l4 could not be written
Reply(text, l4, made, logs) ==
    IF l4.raised
    THEN Caught(l4.msg, made, logs)
    ELSE [result |-> text, calls |-> made, logs |-> logs \o l4.records,
          raised |-> FALSE, outcome |-> "reply"]

\* getattr(usage, "__dict__", str(usage))
UsageLogged(usage) == IF usage = PNone THEN PStr(<<"N", "o", "n", "e">>) ELSE usage

\* mutant: the provider is asked again after a failure
ChatAnsweredRetry(comp, made, logs) ==
    IF comp.kind = "raise" THEN Caught(comp.msg, made \o made, logs)
    ELSE IF comp.choices = <<>> THEN Caught(<<"l", "i", "s", "t", " ", "i", "n", "d", "e", "x", " ", "o", "u", "t", " ", "o", "f", " ", "r", "a", "n", "g", "e">>, made \o made, logs)
    ELSE Reply(comp.choices[1],
               log_kv("chat_response",
                      <<PBool(Truthy(comp.choices[1])), UsageLogged(comp.usage)>>),
               made, logs)

\* lines 214-220 with the outcome comp of client.chat.completions.create
ChatAnswered(comp, made, logs) ==
    IF comp.kind = "raise" THEN Caught(comp.msg, made, logs)
    ELSE IF comp.choices = <<>> THEN Caught(<<"l", "i", "s", "t", " ", "i", "n", "d", "e", "x", " ", "o", "u", "t", " ", "o", "f", " ", "r", "a", "n", "g", "e">>, made, logs)
    ELSE Reply(comp.choices[1],
               log_kv("chat_response",
                      <<PBool(Truthy(comp.choices[1])), UsageLogged(comp.usage)>>),
               made, logs)

\* lines 199-220: the chat completion on the uploaded file
ChatPart(file_id, comp, made, logs) ==
    ChatAnswered(comp, Append(made, ChatCall(file_id)),
                 logs \o log_kv("chat_request", <<PStr(<<"g", "p", "t", "-", "5", "-", "n", "a", "n", "o">>), PNum(2)>>).records)

\* mutant: a missing file id is not checked
FileIdUnchecked(upload_json, file_id, comp, made, logs) ==
    ChatPart(file_id, comp, made, logs)

\* lines 194-197 with file_id = upload_json.get("id")
FileId(upload_json, file_id, comp, made, logs) ==
    IF ~Truthy(file_id)
    THEN [result  |-> PStr(ErrNoFileId \o Repr(upload_json)),
          calls   |-> made,
          logs    |-> logs,
          raised  |-> FALSE,
          outcome |-> "no_file_id"]
    ELSE ChatPart(file_id, comp, made, logs)

\* lines 190-192 with the outcome body of upload_resp.json()
UploadJson(body, comp, made, logs) ==
    IF ~body.ok THEN Caught(<<"E", "x", "p", "e", "c", "t", "i", "n", "g", " ", "v", "a", "l", "u", "e">>, made, logs)
    ELSE IF body.val.t # "obj"
         THEN Caught(<<"'">> \o TypeName(body.val) \o <<"'", " ", "o", "b", "j", "e", "c", "t", " ", "h", "a", "s", " ", "n", "o", " ", "a", "t", "t", "r", "i", "b", "u", "t", "e", " ", "'", "g", "e", "t", "'">>,
                     made, logs)
    ELSE FileId(body.val, DictGet(body.val, <<"i", "d">>), comp, made,
                logs \o log_kv("file_upload_success", <<DictGet(body.val, <<"i", "d">>)>>).records)

\* lines 181-224 with the outcome up of requests.post
Uploaded(up, comp, made) ==
    IF up.kind = "raise" THEN Caught(up.msg, made, <<>>)
    ELSE IF UploadRejected(up.status_code)
         THEN [result  |-> PStr(ErrUploading \o Decimal(up.status_code)
                                \o <<" ", "-", " ">> \o up.text),
               calls   |-> made,
               logs    |-> log_kv("file_upload_response", <<PNum(up.status_code)>>).records
                           \o log_kv("file_upload_error", <<PStr(up.text)>>).records,
               raised  |-> FALSE,
               outcome |-> "upload_rejected"]
         ELSE UploadJson(JsonLoads(up.text), comp, made,
                         log_kv("file_upload_response", <<PNum(up.status_code)>>).records)

\* the value returned, the return statement that gave it (outcome), the external
\* calls made and the log records emitted
analyze_document(mime, up, comp) == Uploaded(up, comp, <<FilesCall(mime)>>)

----------------------------------------------------------------------------
(* render_analysis_ui *)

\* f"{x}" of a str or of None
Format(x) == IF x.t = "str" THEN x.v ELSE <<"N", "o", "n", "e">>

\* {"administrative": "chip-admin", ...}.get(doc_type, "chip-unknown")
ChipClass(label) ==
    CASE label = Administrative -> <<"c", "h", "i", "p", "-", "a", "d", "m", "i", "n">>
      [] label = Criminal       -> <<"c", "h", "i", "p", "-", "c", "r", "i", "m", "i", "n", "a", "l">>
      [] OTHER                  -> <<"c", "h", "i", "p", "-", "u", "n", "k", "n", "o", "w", "n">>

\* parsed is the local variable of that name: the decoded value, or None
NoPage == [raised |-> FALSE, view |-> "none", parsed |-> PNone, doc_type |-> PNone,
           chip_class |-> <<>>, chip |-> <<>>, explanation |-> PNone,
           explanation_shown |-> FALSE, raw_shown |-> <<>>]

\* the page when render_analysis_ui raised before writing anything
RaisedPage == [NoPage EXCEPT !.raised = TRUE]

\* parsed.get(a) or parsed.get(b) or parsed.get(c) or ""
FirstTruthy(parsed, a, b, c) ==
    PyOr(PyOr(PyOr(DictGet(parsed, a), DictGet(parsed, b)), DictGet(parsed, c)), PStr(<<>>))

\* lines 118-143: the card for doc_type (norm) and explanation
Card(result_text, parsed, norm, explanation) ==
    IF norm.raised
    THEN [RaisedPage EXCEPT !.parsed = parsed]
    ELSE [raised            |-> FALSE,
          view              |-> "structured",
          parsed            |-> parsed,
          doc_type          |-> norm.val,
          chip_class        |-> ChipClass(norm.val.v),
          chip              |-> Title(norm.val.v),
          explanation       |-> explanation,
          explanation_shown |-> Truthy(explanation),
          raw_shown         |-> Format(result_text)]

\* lines 108-155 with the outcome of json.loads: the page written, and the log
\* records emitted on the way
Rendering(result_text, loaded) ==
    [logs |-> IF loaded.ok THEN <<>>
              ELSE log_kv("json_parse_error", <<PStr(<<"E", "x", "p", "e", "c", "t", "i", "n", "g", " ", "v", "a", "l", "u", "e">>)>>).records,
     page |-> IF loaded.ok /\ loaded.val.t = "obj"
              THEN Card(result_text, loaded.val,
                        _normalize_type(FirstTruthy(loaded.val,
                                                    <<"d", "o", "c", "u", "m", "e", "n", "t", "_", "t", "y", "p", "e">>, <<"t", "y", "p", "e">>, <<"d", "o", "c", "u", "m", "e", "n", "t">>)),
                        FirstTruthy(loaded.val, <<"e", "x", "p", "l", "a", "n", "a", "t", "i", "o", "n">>, <<"r", "e", "a", "s", "o", "n">>, <<"s", "u", "m", "m", "a", "r", "y">>))
              ELSE [NoPage EXCEPT !.view = "raw",
                                  !.parsed = IF loaded.ok THEN loaded.val ELSE PNone,
                                  !.raw_shown = Format(result_text)]]

render_analysis_ui(result_text) ==
    Rendering(result_text, JsonLoads(_clean_possible_json(result_text)))

----------------------------------------------------------------------------
(* main: one script run *)

\* mutant: only the two messages analyze_document builds are taken for errors
IsErrorResultOwnPrefixes(result) ==
    /\ result.t = "str"
    /\ \/ StartsWith(result.v, <<"E", "r", "r", "o", "r", " ", "u", "p", "l", "o", "a", "d", "i", "n", "g", " ", "f", "i", "l", "e", ":", " ">>)
       \/ StartsWith(result.v, ErrAnalysis)

\* isinstance(analysis_result, str) and analysis_result.startswith("Error")
IsErrorResult(result) == result.t = "str" /\ StartsWith(result.v, <<"E", "r", "r", "o", "r">>)

\* st.session_state.log_records[-300:]
DebugTail == 300
LastRecords(records) ==
    IF Len(records) <= DebugTail THEN records
    ELSE SubSeq(records, Len(records) - DebugTail + 1, Len(records))

NoUpload     == [kind |-> "none", status_code |-> 0, text |-> <<>>, msg |-> <<>>]
NoCompletion == [kind |-> "none", msg |-> <<>>, choices |-> <<>>, usage |-> PNone]

UploadRaises(m)      == [kind |-> "raise", status_code |-> 0, text |-> <<>>, msg |-> m]
UploadAnswers(c, b)  == [kind |-> "response", status_code |-> c, text |-> b, msg |-> <<>>]
ChatRaises(m)        == [kind |-> "raise", msg |-> m, choices |-> <<>>, usage |-> PNone]
ChatAnswers(cs, u)   == [kind |-> "response", msg |-> <<>>, choices |-> cs, usage |-> u]

MimeTypes == {PStr(<<"i", "m", "a", "g", "e", "/", "p", "n", "g">>), PStr(<<"a", "p", "p", "l", "i", "c", "a", "t", "i", "o", "n", "/", "p", "d", "f">>)}

StatusCodes == {200, 201, 204, 500}

UploadBodies ==
    { <<"{", "\"", "i", "d", "\"", ":", " ", "\"", "f", "i", "l", "e", "-", "1", "\"", "}">>, <<"{", "\"", "i", "d", "\"", ":", " ", "\"", "\"", "}">>, <<"{", "\"", "i", "d", "\"", ":", " ", "n", "u", "l", "l", "}">>, <<"{", "\"", "o", "b", "j", "e", "c", "t", "\"", ":", " ", "\"", "f", "i", "l", "e", "\"", "}">>,
      <<"[", "]">>, <<"s", "e", "r", "v", "e", "r", " ", "e", "r", "r", "o", "r">> }

UploadOutcomes ==
    {UploadRaises(<<"C", "o", "n", "n", "e", "c", "t", "i", "o", "n", " ", "r", "e", "f", "u", "s", "e", "d">>)}
    \cup {UploadAnswers(c, b) : c \in StatusCodes, b \in UploadBodies}

\* response.usage.__dict__: token counts, and with them the detail objects
UsageCounts  == PDict(<< <<<<"t", "o", "t", "a", "l", "_", "t", "o", "k", "e", "n", "s">>, PNum(9)>> >>)
UsageDetails == PDict(<< <<<<"t", "o", "t", "a", "l", "_", "t", "o", "k", "e", "n", "s">>, PNum(9)>>,
                         <<<<"c", "o", "m", "p", "l", "e", "t", "i", "o", "n", "_", "t", "o", "k", "e", "n", "s", "_", "d", "e", "t", "a", "i", "l", "s">>, PObject>> >>)
Usages == {PNone, UsageCounts, UsageDetails}

Contents ==
    { PNone,
      PStr(<<"{", "\"", "d", "o", "c", "u", "m", "e", "n", "t", "_", "t", "y", "p", "e", "\"", ":", "\"", "c", "r", "i", "m", "i", "n", "a", "l", "\"", ",", "\"", "e", "x", "p", "l", "a", "n", "a", "t", "i", "o", "n", "\"", ":", "\"", "D", "e", "s", "c", "r", "i", "b", "e", "s", " ", "a", "n", " ", "o", "f", "f", "e", "n", "s", "e", ".", "\"", "}">>),
      PStr(<<"E", "r", "r", "o", "r", ":", " ", "t", "h", "e", " ", "s", "c", "a", "n", " ", "i", "s", " ", "u", "n", "r", "e", "a", "d", "a", "b", "l", "e", ".">>),
      PStr(<<"{", "\"", "d", "o", "c", "u", "m", "e", "n", "t", "_", "t", "y", "p", "e", "\"", ":", " ", "7", "}">>),
      PStr(<<"I", " ", "c", "a", "n", "n", "o", "t", " ", "d", "e", "t", "e", "r", "m", "i", "n", "e", " ", "t", "h", "i", "s", ".">>) }

CompletionOutcomes ==
    {ChatRaises(<<"R", "a", "t", "e", " ", "l", "i", "m", "i", "t", " ", "e", "x", "c", "e", "e", "d", "e", "d">>), ChatAnswers(<<>>, PNone)}
    \cup {ChatAnswers(<<c>>, u) : c \in Contents, u \in Usages}

\* the completion endpoint answers only when it is called
CompletionFor(mime, up) ==
    IF Len(analyze_document(mime, up, NoCompletion).calls) > 1
    THEN CompletionOutcomes ELSE {NoCompletion}

\* lines 294-303 with the page shown for the result a
Main(debug, mime, up, comp, a, shown) ==
    /\ runs' = runs + 1
    /\ debug_mode' = debug
    /\ mime_type' = mime
    /\ upload_resp' = up
    /\ completion' = comp
    /\ calls' = a.calls
    /\ analysis_result' = a.result
    /\ outcome' = a.outcome
    /\ banner' = IF a.raised THEN "exception"
                 ELSE IF IsErrorResult(a.result) THEN "error" ELSE "success"
    /\ ui' = shown.page
    /\ log_records' = log_records \o a.logs \o shown.logs
    /\ debug_view' = IF debug /\ ~a.raised /\ ~shown.page.raised
                     THEN LastRecords(log_records \o a.logs \o shown.logs) ELSE <<>>

\* lines 292-298 with the result a of analyze_document
Analysed(debug, mime, up, comp, a) ==
    Main(debug, mime, up, comp, a,
         IF a.raised \/ IsErrorResult(a.result)
         THEN [logs |-> <<>>, page |-> NoPage]
         ELSE render_analysis_ui(a.result))

\* main() with an uploaded file
RunWithFile ==
    /\ runs < MaxRuns
    /\ \E debug \in BOOLEAN, mime \in MimeTypes, up \in UploadOutcomes :
         \E comp \in CompletionFor(mime, up) :
           Analysed(debug, mime, up, comp, analyze_document(mime, up, comp))
    /\ UNCHANGED << sent, raw_type, doc_type >>

\* main() with no file chosen: only the debug section may be drawn
RunNoFile ==
    /\ \E debug \in BOOLEAN :
         /\ debug_mode' = debug
         /\ debug_view' = IF debug THEN LastRecords(log_records) ELSE <<>>
    /\ mime_type' = PNone
    /\ upload_resp' = NoUpload
    /\ completion' = NoCompletion
    /\ calls' = <<>>
    /\ analysis_result' = PNone
    /\ outcome' = "none"
    /\ banner' = "none"
    /\ ui' = NoPage
    /\ UNCHANGED << log_records, runs, sent, raw_type, doc_type >>

NotCalled == [raised |-> FALSE, val |-> PNone]

Init ==
    /\ log_records = <<>>
    /\ runs = 0
    /\ debug_mode = FALSE
    /\ mime_type = PNone
    /\ upload_resp = NoUpload
    /\ completion = NoCompletion
    /\ calls = <<>>
    /\ analysis_result = PNone
    /\ outcome = "none"
    /\ banner = "none"
    /\ ui = NoPage
    /\ debug_view = <<>>
    /\ sent = PNone
    /\ raw_type = PNone
    /\ doc_type = NotCalled

Next == RunWithFile \/ RunNoFile

Spec == Init /\ [][Next]_vars

----------------------------------------------------------------------------
(* The provider's replies given to render_analysis_ui *)

RECURSIVE Flatten(_)
\* the concatenation of a sequence of texts
Flatten(ss) ==
    IF ss = <<>> THEN <<>>
    ELSE IF Len(ss) = 1 THEN ss[1]
    ELSE LET h == Len(ss) \div 2
         IN  Flatten(SubSeq(ss, 1, h)) \o Flatten(SubSeq(ss, h + 1, Len(ss)))

\* the sequences of at most n elements of S
SeqsUpTo(S, n) == UNION {[1..k -> S] : k \in 0..n}

\* a character of a JSON string literal as the provider writes it
EscapeChar(c) ==
    CASE c = "\"" -> <<"\\", "\"">>
      [] c = "\\" -> <<"\\", "\\">>
      [] c = "\n" -> <<"\\", "n">>
      [] OTHER    -> <<c>>

RECURSIVE JsonText(_)
RECURSIVE JsonItems(_, _, _)
\* the compact JSON text of a value, as the provider writes it
JsonText(x) ==
    CASE x.t = "str"  -> <<"\"">> \o Flatten([i \in 1..Len(x.v) |-> EscapeChar(x.v[i])]) \o <<"\"">>
      [] x.t = "num"  -> Decimal(x.v)
      [] x.t = "bool" -> IF x.v THEN <<"t", "r", "u", "e">> ELSE <<"f", "a", "l", "s", "e">>
      [] x.t = "null" -> <<"n", "u", "l", "l">>
      [] x.t = "list" -> <<"[">> \o JsonItems(x.v, 1, FALSE) \o <<"]">>
      [] OTHER        -> <<"{">> \o JsonItems(x.v, 1, TRUE) \o <<"}">>

JsonItems(items, i, keyed) ==
    IF i > Len(items) THEN <<>>
    ELSE (IF keyed
          THEN JsonText(PStr(items[i][1])) \o <<":">> \o JsonText(items[i][2])
          ELSE JsonText(items[i]))
         \o (IF i < Len(items) THEN <<",">> ELSE <<>>)
         \o JsonItems(items, i + 1, keyed)

TypeKeys  == <<<<"d", "o", "c", "u", "m", "e", "n", "t", "_", "t", "y", "p", "e">>, <<"t", "y", "p", "e">>, <<"d", "o", "c", "u", "m", "e", "n", "t">>>>
ExplKeys  == <<<<"e", "x", "p", "l", "a", "n", "a", "t", "i", "o", "n">>, <<"r", "e", "a", "s", "o", "n">>, <<"s", "u", "m", "m", "a", "r", "y">>>>
FieldKeys == {TypeKeys[i] : i \in 1..3} \cup {ExplKeys[i] : i \in 1..3}

\* values of every JSON type, falsy and truthy
FirstValues ==
    { PStr(<<>>), PStr(<<"A", "D", "M", "I", "N">>), PStr(<<"C", "r", "i", "m", "i", "n", "a", "l", " ", "C", "a", "s", "e">>), PStr(<<"o", "t", "h", "e", "r">>),
      PNone, PNum(7), PNum(0), PBool(TRUE),
      PList(<<PStr(<<"a", "d", "m", "i", "n">>)>>), PDict(<< <<<<"t", "y", "p", "e">>, PStr(<<"a", "d", "m", "i", "n">>)>> >>) }
RestValues == { PStr(<<>>), PStr(<<"c", "r", "i", "m", "i", "n", "a", "l">>), PStr(<<"A", "d", "m", "i", "n", " ", "f", "o", "r", "m">>) }

KeySeqs ==
    {ks \in SeqsUpTo(FieldKeys, MaxFields) :
        \A i, j \in 1..Len(ks) : i # j => ks[i] # ks[j]}
ValueSeqs(k) ==
    {vs \in [1..k -> FirstValues \cup RestValues] :
        \A i \in 2..k : vs[i] \in RestValues}

\* objects of at most MaxFields fields
Objects ==
    UNION { {PDict([i \in 1..Len(ks) |-> <<ks[i], vs[i]>>]) : vs \in ValueSeqs(Len(ks))}
            : ks \in KeySeqs }

\* objects that are also sent inside fences and prose
WrappedObjects ==
    { PDict(<< <<<<"d", "o", "c", "u", "m", "e", "n", "t", "_", "t", "y", "p", "e">>, PStr(<<"c", "r", "i", "m", "i", "n", "a", "l">>)>>,
               <<<<"e", "x", "p", "l", "a", "n", "a", "t", "i", "o", "n">>, PStr(<<"D", "e", "s", "c", "r", "i", "b", "e", "s", " ", "a", "n", " ", "o", "f", "f", "e", "n", "s", "e", ".">>)>> >>),
      PDict(<< <<<<"t", "y", "p", "e">>, PStr(<<"a", "d", "m", "i", "n">>)>>, <<<<"r", "e", "a", "s", "o", "n">>, PStr(<<"R", "o", "u", "t", "i", "n", "e", " ", "f", "o", "r", "m", ".">>)>> >>),
      PDict(<< <<<<"d", "o", "c", "u", "m", "e", "n", "t", "_", "t", "y", "p", "e">>, PStr(<<"u", "n", "k", "n", "o", "w", "n">>)>>,
               <<<<"e", "x", "p", "l", "a", "n", "a", "t", "i", "o", "n">>, PStr(<<"S", "t", "a", "r", "t", "s", " ", "w", "i", "t", "h", " ", Backtick, Backtick, Backtick, "j", "s", "o", "n", " ", "a", "n", "d", " ", "a", " ", "}", " ", "s", "i", "g", "n">>)>> >>) }

ProseFragments == { <<"H", "e", "r", "e", " ", "i", "s", " ", "t", "h", "e", " ", "r", "e", "s", "u", "l", "t", ":", "\n">>, <<"I", "n", " ", "s", "h", "o", "r", "t", " ", "{", "c", "r", "i", "m", "i", "n", "a", "l", "}", ".", " ">>, <<"D", "o", "n", "e", ".">> }
Prose  == {Flatten(fs) : fs \in SeqsUpTo(ProseFragments, MaxProse)}
Fences == { <<<<>>, <<>>>>, <<<<Backtick, Backtick, Backtick, "j", "s", "o", "n", "\n">>, <<"\n", Backtick, Backtick, Backtick>>>>, <<<<Backtick, Backtick, Backtick, "J", "S", "O", "N", "\n">>, <<"\n", Backtick, Backtick, Backtick>>>>,
            <<<<Backtick, Backtick, Backtick, "\n">>, <<"\n", Backtick, Backtick, Backtick>>>>, <<<<Backtick, Backtick, Backtick, "j", "s", "o", "n", "\n">>, <<>>>> }

\* replies that hold no JSON object
OtherReplies ==
    { PNone, PStr(<<>>), PStr(<<"I", " ", "c", "a", "n", "n", "o", "t", " ", "d", "e", "t", "e", "r", "m", "i", "n", "e", " ", "t", "h", "i", "s", ".">>), PStr(<<"[", "1", ",", "2", "]">>), PStr(<<"7">>),
      PStr(<<"\"", "c", "r", "i", "m", "i", "n", "a", "l", "\"">>), PStr(<<"n", "u", "l", "l">>), PStr(<<"{", "\"", "d", "o", "c", "u", "m", "e", "n", "t", "_", "t", "y", "p", "e", "\"", ":", " ", "}">>) }

Replies ==
    {[sent |-> o, text |-> PStr(JsonText(o))] : o \in Objects}
    \cup {[sent |-> o, text |-> PStr(pre \o f[1] \o JsonText(o) \o f[2] \o suf)] :
            o \in WrappedObjects, pre \in Prose, f \in Fences, suf \in Prose}
    \cup {[sent |-> PNone, text |-> r] : r \in OtherReplies}

PendingPage == [NoPage EXCEPT !.view = "pending"]

InitInterpreter ==
    /\ \E r \in Replies : analysis_result = r.text /\ sent = r.sent
    /\ ui = PendingPage
    /\ log_records = <<>>
    /\ runs = 0
    /\ debug_mode = FALSE
    /\ mime_type = PNone
    /\ upload_resp = NoUpload
    /\ completion = NoCompletion
    /\ calls = <<>>
    /\ outcome = "none"
    /\ banner = "none"
    /\ debug_view = <<>>
    /\ raw_type = PNone
    /\ doc_type = NotCalled

\* the page and the log after the call
Interpreted(r) ==
    /\ ui' = r.page
    /\ log_records' = log_records \o r.logs

\* render_analysis_ui(result_text)
Interpret ==
    /\ ui.view = "pending"
    /\ Interpreted(render_analysis_ui(analysis_result))
    /\ UNCHANGED << runs, debug_mode, mime_type, upload_resp, completion, calls,
                    analysis_result, outcome, banner, debug_view, sent, raw_type,
                    doc_type >>

NextInterpreter == Interpret

SpecInterpreter == InitInterpreter /\ [][NextInterpreter]_vars

----------------------------------------------------------------------------
(* Arguments given to _normalize_type *)

TypeFragments ==
    { <<"A", "d", "m", "i", "n", "i", "s", "t", "r", "a", "t", "i", "v", "e">>, <<"A", "D", "M", "I", "N">>, <<"a", "d", "m", "i", "n">>, <<"C", "r", "i", "m", "i", "n", "a", "l">>, <<"c", "r", "i", "m", "i", "n", "a", "l">>, <<" ">>, <<" ", "d", "o", "c", "u", "m", "e", "n", "t">>,
      <<" ", "C", "a", "s", "e">>, <<"N", "/", "A">>, <<"o", "t", "h", "e", "r">>, <<"a", "d", "m">>, <<"i", "n">> }

RawTypes ==
    {PStr(Flatten(fs)) : fs \in SeqsUpTo(TypeFragments, MaxFrags)}
    \cup {PNone, PNum(7), PList(<<PStr(<<"a", "d", "m", "i", "n">>)>>)}

InitNormalize ==
    /\ raw_type \in RawTypes
    /\ doc_type = NotCalled
    /\ log_records = <<>>
    /\ runs = 0
    /\ debug_mode = FALSE
    /\ mime_type = PNone
    /\ upload_resp = NoUpload
    /\ completion = NoCompletion
    /\ calls = <<>>
    /\ analysis_result = PNone
    /\ outcome = "none"
    /\ banner = "none"
    /\ ui = NoPage
    /\ debug_view = <<>>
    /\ sent = PNone

\* _normalize_type(raw_type)
Normalize ==
    /\ doc_type = NotCalled
    /\ doc_type' = _normalize_type(raw_type)
    /\ UNCHANGED << log_records, runs, debug_mode, mime_type, upload_resp, completion,
                    calls, analysis_result, outcome, banner, ui, debug_view, sent,
                    raw_type >>

NextNormalize == Normalize

SpecNormalize == InitNormalize /\ [][NextNormalize]_vars

----------------------------------------------------------------------------
(* Properties *)

\* the last script run analysed a file
Submitted == banner # "none"

ChatCalled == \E i \in 1..Len(calls) : calls[i].endpoint = "chat.completions"

\* the completion endpoint answered with a first choice
ChatReplied == completion.kind = "response" /\ completion.choices # <<>>

\* C1: when the upload endpoint answers with a status other than 200/201, the
\* call returns an error string that contains the status code and the response
\* body, and issues no chat-completion request.
C1_RejectedUploadIsReported ==
    (Submitted /\ upload_resp.kind = "response" /\ upload_resp.status_code \notin {200, 201})
    => /\ analysis_result.t = "str"
       /\ StartsWith(analysis_result.v, <<"E", "r", "r", "o", "r">>)
       /\ Contains(analysis_result.v, Decimal(upload_resp.status_code))
       /\ Contains(analysis_result.v, upload_resp.text)
       /\ ~ChatCalled

C1_Witness ==
    /\ upload_resp = UploadAnswers(500, <<"s", "e", "r", "v", "e", "r", " ", "e", "r", "r", "o", "r">>)
    /\ analysis_result = PStr(<<"E", "r", "r", "o", "r", " ", "u", "p", "l", "o", "a", "d", "i", "n", "g", " ", "f", "i", "l", "e", ":", " ", "5", "0", "0", " ", "-", " ", "s", "e", "r", "v", "e", "r", " ", "e", "r", "r", "o", "r">>)
    /\ Len(calls) = 1

\* the accepted upload answered with a JSON object
UploadObject ==
    /\ upload_resp.kind = "response"
    /\ upload_resp.status_code \in {200, 201}
    /\ JsonLoads(upload_resp.text).ok
    /\ JsonLoads(upload_resp.text).val.t = "obj"

UploadId == DictGet(JsonLoads(upload_resp.text).val, <<"i", "d">>)

\* C2: an accepted upload whose response has a missing, null or empty id gives
\* an error string prefixed "Error uploading file: " that differs from the
\* rejected-status error, and no chat-completion request; a completion request
\* is only issued after an accepted upload with a non-empty id.
C2_MissingFileIdIsReported ==
    /\ (Submitted /\ UploadObject /\ ~Truthy(UploadId))
       => /\ analysis_result.t = "str"
          /\ StartsWith(analysis_result.v, <<"E", "r", "r", "o", "r", " ", "u", "p", "l", "o", "a", "d", "i", "n", "g", " ", "f", "i", "l", "e", ":", " ">>)
          /\ analysis_result.v # ErrUploading \o Decimal(upload_resp.status_code)
                                   \o <<" ", "-", " ">> \o upload_resp.text
          /\ ~StartsWith(analysis_result.v,
                         ErrUploading \o Decimal(upload_resp.status_code))
          /\ ~ChatCalled
    /\ ChatCalled => (UploadObject /\ Truthy(UploadId))

C2_Witness ==
    /\ upload_resp = UploadAnswers(200, <<"{", "\"", "i", "d", "\"", ":", " ", "n", "u", "l", "l", "}">>)
    /\ analysis_result = PStr(<<"E", "r", "r", "o", "r", " ", "u", "p", "l", "o", "a", "d", "i", "n", "g", " ", "f", "i", "l", "e", ":", " ", "n", "o", " ", "f", "i", "l", "e", " ", "i", "d", " ", "r", "e", "t", "u", "r", "n", "e", "d", ":", " ", "{", "'", "i", "d", "'", ":", " ", "N", "o", "n", "e", "}">>)
    /\ ~ChatCalled

\* a step of the last analyze_document raised
StepRaised ==
    \/ upload_resp.kind = "raise"
    \/ (upload_resp.kind = "response" /\ upload_resp.status_code \in {200, 201}
        /\ ~UploadObject)
    \/ completion.kind = "raise"
    \/ (completion.kind = "response" /\ completion.choices = <<>>)

\* C3: a call is a single attempt: upload at most once, completion at most once,
\* upload first; an exception at any step is caught, not propagated, not
\* retried, and ends the call with a string prefixed "Error during analysis: "
\* or "Error uploading file: ".
C3_SingleAttemptFailFast ==
    Submitted
    => /\ Cardinality({i \in 1..Len(calls) : calls[i].endpoint = "files"}) <= 1
       /\ Cardinality({i \in 1..Len(calls) : calls[i].endpoint = "chat.completions"}) <= 1
       /\ \A i \in 1..Len(calls) :
            calls[i].endpoint = "chat.completions"
            => \E j \in 1..(i - 1) : calls[j].endpoint = "files"
       /\ banner # "exception"
       /\ StepRaised
          => /\ analysis_result.t = "str"
             /\ \/ StartsWith(analysis_result.v, <<"E", "r", "r", "o", "r", " ", "d", "u", "r", "i", "n", "g", " ", "a", "n", "a", "l", "y", "s", "i", "s", ":", " ">>)
                \/ StartsWith(analysis_result.v, <<"E", "r", "r", "o", "r", " ", "u", "p", "l", "o", "a", "d", "i", "n", "g", " ", "f", "i", "l", "e", ":", " ">>)
             /\ calls[Len(calls)].endpoint =
                  (IF completion.kind = "none" THEN "files" ELSE "chat.completions")

C3_Witness ==
    /\ completion = ChatRaises(<<"R", "a", "t", "e", " ", "l", "i", "m", "i", "t", " ", "e", "x", "c", "e", "e", "d", "e", "d">>)
    /\ Len(calls) = 2
    /\ analysis_result = PStr(<<"E", "r", "r", "o", "r", " ", "d", "u", "r", "i", "n", "g", " ", "a", "n", "a", "l", "y", "s", "i", "s", ":", " ", "R", "a", "t", "e", " ", "l", "i", "m", "i", "t", " ", "e", "x", "c", "e", "e", "d", "e", "d">>)

\* C4: logging is observational: the value returned does not depend on whether
\* a log emission succeeds, and a log emission never turns a successful
\* completion into an error result.
C4_LoggingIsObservational ==
    (Submitted /\ ChatReplied) => analysis_result = completion.choices[1]

\* C5: the document type shown for a recovered JSON object is one of
\* administrative, criminal, unknown, never the provider's raw string.
C5_TypeIsClosedLabel ==
    /\ ui.view = "structured"
       => /\ ui.doc_type.t = "str"
          /\ ui.doc_type.v \in {<<"a", "d", "m", "i", "n", "i", "s", "t", "r", "a", "t", "i", "v", "e">>, <<"c", "r", "i", "m", "i", "n", "a", "l">>, <<"u", "n", "k", "n", "o", "w", "n">>}
          /\ ui.chip \in {<<"A", "d", "m", "i", "n", "i", "s", "t", "r", "a", "t", "i", "v", "e">>, <<"C", "r", "i", "m", "i", "n", "a", "l">>, <<"U", "n", "k", "n", "o", "w", "n">>}
          /\ ToLower(ui.chip) = ui.doc_type.v
    /\ ui.view # "structured" => (ui.doc_type = PNone /\ ui.chip = <<>>)

C5_Witness ==
    /\ ui.view = "structured"
    /\ ui.parsed.t = "obj"
    /\ DictGet(ui.parsed, <<"d", "o", "c", "u", "m", "e", "n", "t", "_", "t", "y", "p", "e">>) = PStr(<<"C", "r", "i", "m", "i", "n", "a", "l", " ", "C", "a", "s", "e">>)
    /\ ui.doc_type = PStr(<<"c", "r", "i", "m", "i", "n", "a", "l">>)

\* C6: render_analysis_ui never raises, whatever the reply and whatever the JSON
\* type of the document_type / explanation values; without a JSON object it
\* shows the raw text verbatim and no type chip.
C6_InterpreterNeverRaises ==
    /\ ~ui.raised
    /\ (ui.view \notin {"pending", "none"} /\ ui.parsed.t # "obj")
       => /\ ui.view = "raw"
          /\ ui.chip = <<>>
          /\ ui.raw_shown = Format(analysis_result)

\* the value of the first key of keys that the object holds
HasAny(obj, keys) == \E i \in 1..Len(keys) : HasKey(obj, keys[i])
FirstPresent(obj, keys) ==
    DictGet(obj, keys[CHOOSE i \in 1..Len(keys) :
                        /\ HasKey(obj, keys[i])
                        /\ \A j \in 1..(i - 1) : ~HasKey(obj, keys[j])])

\* C7: first present key wins: the value of the first present key among
\* document_type, type, document is the one normalized, and the value of the
\* first present key among explanation, reason, summary is the one used, also
\* when that value is an empty string or null.
C7_FirstPresentKeyWins ==
    ui.view = "structured"
    => /\ HasAny(ui.parsed, TypeKeys)
          => ui.doc_type = _normalize_type(FirstPresent(ui.parsed, TypeKeys)).val
       /\ HasAny(ui.parsed, ExplKeys)
          => LET x == FirstPresent(ui.parsed, ExplKeys)
             IN  /\ ui.explanation_shown = Truthy(x)
                 /\ Truthy(x) => ui.explanation = x

\* p occurs in s, letter case ignored (p in lower case)
ContainsIgnoreCase(s, p) == \E i \in 1..(Len(s) + 1) : MatchAtIgnoreCase(s, i, p)

Normalized == doc_type # NotCalled /\ raw_type.t \in {"str", "null"}
RawText == IF raw_type.t = "str" THEN raw_type.v ELSE <<>>

\* C8, as amended: case-insensitive substring match in which the admin rule comes
\* first: a value containing "admin" gives administrative; a value containing
\* "criminal" and not "admin" gives criminal; anything else, a missing or empty
\* value included, gives unknown.
C8_AdminRuleFirst ==
    Normalized
    => /\ ~doc_type.raised
       /\ ContainsIgnoreCase(RawText, <<"a", "d", "m", "i", "n">>)
          => doc_type.val = PStr(<<"a", "d", "m", "i", "n", "i", "s", "t", "r", "a", "t", "i", "v", "e">>)
       /\ (ContainsIgnoreCase(RawText, <<"c", "r", "i", "m", "i", "n", "a", "l">>) /\ ~ContainsIgnoreCase(RawText, <<"a", "d", "m", "i", "n">>))
          => doc_type.val = PStr(<<"c", "r", "i", "m", "i", "n", "a", "l">>)
       /\ (~ContainsIgnoreCase(RawText, <<"c", "r", "i", "m", "i", "n", "a", "l">>) /\ ~ContainsIgnoreCase(RawText, <<"a", "d", "m", "i", "n">>))
          => doc_type.val = PStr(<<"u", "n", "k", "n", "o", "w", "n">>)

C8_Witness ==
    /\ raw_type = PStr(<<"C", "r", "i", "m", "i", "n", "a", "l", "A", "D", "M", "I", "N">>)
    /\ doc_type = Returned(PStr(<<"a", "d", "m", "i", "n", "i", "s", "t", "r", "a", "t", "i", "v", "e">>))

\* C8, as stated: each rule applies to every value that contains its substring,
\* values that contain both substrings included.
C8_EachRuleApplies ==
    Normalized
    => /\ ContainsIgnoreCase(RawText, <<"a", "d", "m", "i", "n">>)
          => doc_type.val = PStr(<<"a", "d", "m", "i", "n", "i", "s", "t", "r", "a", "t", "i", "v", "e">>)
       /\ ContainsIgnoreCase(RawText, <<"c", "r", "i", "m", "i", "n", "a", "l">>)
          => doc_type.val = PStr(<<"c", "r", "i", "m", "i", "n", "a", "l">>)
       /\ (~ContainsIgnoreCase(RawText, <<"c", "r", "i", "m", "i", "n", "a", "l">>) /\ ~ContainsIgnoreCase(RawText, <<"a", "d", "m", "i", "n">>))
          => doc_type.val = PStr(<<"u", "n", "k", "n", "o", "w", "n">>)

\* C9: from a reply that holds one well-formed JSON object, in fences or prose
\* or not, cleaning and decoding recover exactly that object's fields.
C9_ObjectIsRecovered ==
    (ui.view # "pending" /\ sent.t = "obj") => ui.parsed = sent

\* the Interpreter was given the result
Rendered == ui.view \in {"structured", "raw"} \/ ui.raised

\* C10, as amended: the error banner is shown if and only if the result of
\* analyze_document is a string that begins with "Error"; every failure result
\* is shown as the banner and not given to the Interpreter; a completion reply
\* is reported as "Analysis Complete" and given to render_analysis_ui exactly
\* when it does not begin with "Error" (an absent content included).
C10_BannerIffErrorPrefix ==
    Submitted
    => /\ banner = "error"
          <=> (analysis_result.t = "str" /\ StartsWith(analysis_result.v, <<"E", "r", "r", "o", "r">>))
       /\ banner \in {"error", "success"}
       /\ banner = "error" <=> ~Rendered
       /\ outcome # "reply" => banner = "error"
       /\ (outcome = "reply" /\ analysis_result = PNone) => banner = "success"

C10_Witness ==
    /\ outcome = "reply"
    /\ analysis_result = PStr(<<"E", "r", "r", "o", "r", ":", " ", "t", "h", "e", " ", "s", "c", "a", "n", " ", "i", "s", " ", "u", "n", "r", "e", "a", "d", "a", "b", "l", "e", ".">>)
    /\ banner = "error"
    /\ ui.view = "none"

\* C10, as stated: the error banner is shown if and only if analyze_document
\* failed; every completion reply, whatever its text, is reported as
\* "Analysis Complete" and given to render_analysis_ui.
C10_BannerIffFailed ==
    Submitted
    => /\ banner = "error" <=> outcome # "reply"
       /\ outcome # "reply" => ~Rendered
       /\ outcome = "reply" => (banner = "success" /\ Rendered)

====
